---- MODULE Spec2Model ----
(***************************************************************************)
(* Model of src/UI.py: the Streamlit page of Regulated Builds.             *)
(*                                                                         *)
(* Every user interaction reruns the script top to bottom.  The body of    *)
(* if st.button("Search"): is the query pipeline  : validation, embedding  *)
(* and retrieval (grounded mode only), context assembly, prompt            *)
(* construction, generation, presentation.                                 *)
(*                                                                         *)
(* A Python string is a sequence of tokens; a token is a fixed piece of a  *)
(* template, a field value, or one of the whitespace tokens NL, IND, SP.   *)
(* Non-ASCII glyphs of the templates are written as ASCII stand-ins.       *)
(***************************************************************************)
EXTENDS Integers, Sequences, FiniteSets, TLC

VARIABLES
    query,              \* value of st.text_input (line 103)
    answer_mode,        \* value of st.radio (lines 104-108)
    has_helpful_count,  \* "helpful_count" in st.session_state
    helpful_count,      \* st.session_state.helpful_count
    trigger,            \* widget whose click started the current script run
    pc,                 \* position of the current script run
    clauses,            \* local: clauses (line 133)
    context_blocks,     \* local: context_blocks (lines 136, 176)
    prompt,             \* local: prompt (lines 180, 210)
    ui,                 \* elements rendered by the current script run
    log,                \* stages entered by the current script run, in order
    failed,             \* where the current script run raised, or "none"
    data_kind,          \* what response.data was: "unset", "null" or "list"
    embedCalls,         \* calls of model.encode in the current run
    retrCalls,          \* calls of supabase.rpc(...).execute in the current run
    genCalls,           \* calls of gemini.generate_content in the current run
    sent,               \* prompts passed to gemini.generate_content in the run
    votes               \* clicks on the vote button in this session

vars == <<query, answer_mode, has_helpful_count, helpful_count, trigger, pc,
          clauses, context_blocks, prompt, ui, log, failed, data_kind,
          embedCalls, retrCalls, genCalls, sent, votes>>

----------------------------------------------------------------------------
(* Bounds *)

MaxClauses == 2     \* longest retrieval result explored
MaxVotes   == 1     \* vote clicks explored per session

----------------------------------------------------------------------------
(* Strings *)

NL  == "\n"
IND == "            "
SP  == " "

Whitespace == {NL, IND, SP}

RECURSIVE LStrip(_)
LStrip(s) ==
    IF s # <<>> /\ Head(s) \in Whitespace THEN LStrip(Tail(s)) ELSE s

RECURSIVE RStrip(_)
RStrip(s) ==
    IF s # <<>> /\ s[Len(s)] \in Whitespace
    THEN RStrip(SubSeq(s, 1, Len(s) - 1))
    ELSE s

\* str.strip()
Strip(s) == RStrip(LStrip(s))

\* sep.join(parts)
RECURSIVE JoinStr(_, _)
JoinStr(parts, sep) ==
    IF parts = <<>> THEN <<>>
    ELSE IF Len(parts) = 1 THEN parts[1]
    ELSE parts[1] \o sep \o JoinStr(Tail(parts), sep)

IsSubstring(a, b) ==
    \/ a = <<>>
    \/ \E i \in 0..(Len(b) - Len(a)) :
          b[i + 1] = a[1] /\ SubSeq(b, i + 1, i + Len(a)) = a

Tokens(s) == {s[i] : i \in 1..Len(s)}

----------------------------------------------------------------------------
(* Dictionary values: a key is absent, or holds None, a string or a list. *)

Absent   == [tag |-> "absent", v |-> <<>>]
None     == [tag |-> "None",   v |-> <<>>]
S(x)     == [tag |-> "str",    v |-> <<x>>]
Empty    == [tag |-> "str",    v |-> <<>>]
L(xs)    == [tag |-> "list",   v |-> xs]

\* d.get(key, default)
Get(val, default) == IF val.tag = "absent" THEN default ELSE val

\* d[key] raises KeyError
KeyError(val) == val.tag = "absent"

\* x or []
OrEmptyList(val) == IF val.tag = "None" \/ val.v = <<>> THEN L(<<>>) ELSE val

\* f"{x}" of a string or of None
Format(val) == IF val.tag = "None" THEN <<"None">> ELSE val.v

NA == S("N/A")

----------------------------------------------------------------------------
(* Records returned by the retrieval service *)

Str2(a, b) == [tag |-> "str", v |-> <<a, b>>]

\* a supporting document with every field present
DocFull(t) ==
    [support_title               |-> S(t),
     support_summary             |-> Str2("summary of ", t),
     support_url                 |-> Str2("https://osha.gov/", t),
     support_compliance_guidance |-> Str2("guidance of ", t),
     support_enforcement_notes   |-> Str2("notes of ", t),
     support_related_sections    |-> S("['1926.501']"),
     support_publication_type    |-> S("Letter of Interpretation"),
     support_publication_date    |-> S("2002-11-15")]

\* a supporting document with the required fields only
DocMin(t) ==
    [support_title               |-> S(t),
     support_summary             |-> Str2("summary of ", t),
     support_url                 |-> Str2("https://osha.gov/", t),
     support_compliance_guidance |-> Absent,
     support_enforcement_notes   |-> Absent,
     support_related_sections    |-> Absent,
     support_publication_type    |-> Absent,
     support_publication_date    |-> Absent]

\* a supporting document without its url
DocNoUrl(t) == [DocFull(t) EXCEPT !.support_url = Absent]

Doc1 == DocFull("LOI 20021115")
Doc2 == DocMin("LOI 20030926")
Doc3 == DocNoUrl("LOI 19950620")

SeqsUpTo(set, n) == UNION {[1..k -> set] : k \in 0..n}

\* the support_docs lists explored: none, one, two in either order
DocLists == {<<>>, <<Doc1>>, <<Doc1, Doc2>>, <<Doc2, Doc1>>}

\* a clause with every field present
ClauseFull(id, docs) ==
    [clause_section_id    |-> S(id),
     clause_title         |-> Str2("title of ", id),
     clause_summary       |-> Str2("summary of ", id),
     violations_fy2024    |-> S("7271"),
     hazard_type          |-> S("Fall"),
     applies_to           |-> L(<< <<"roofers">>, <<"hvac">> >>),
     protective_equipment |-> S("PFAS"),
     support_docs         |-> docs]

\* section id and title only; every other key is missing
ClauseBareAbsent(id) ==
    [clause_section_id    |-> S(id),
     clause_title         |-> Str2("title of ", id),
     clause_summary       |-> Absent,
     violations_fy2024    |-> Absent,
     hazard_type          |-> Absent,
     applies_to           |-> Absent,
     protective_equipment |-> Absent,
     support_docs         |-> Absent]

\* section id and title only; every other key holds null
ClauseBareNone(id) ==
    [clause_section_id    |-> S(id),
     clause_title         |-> Str2("title of ", id),
     clause_summary       |-> None,
     violations_fy2024    |-> None,
     hazard_type          |-> None,
     applies_to           |-> None,
     protective_equipment |-> None,
     support_docs         |-> None]

FirstId  == "1926.501(b)(10)"
SecondId == "1926.502(k)"
OtherId  == "1926.501(b)(4)(ii)"

ClauseRecords ==
    {ClauseFull(FirstId, L(ds)) : ds \in DocLists}
    \cup {ClauseFull(SecondId, L(<<Doc2>>)),
          ClauseBareAbsent(OtherId),
          ClauseBareNone(OtherId),
          [ClauseBareNone(OtherId) EXCEPT !.support_docs = Absent],
          ClauseFull(OtherId, L(<<Doc3>>))}

RetrievalResults == SeqsUpTo(ClauseRecords, MaxClauses)

----------------------------------------------------------------------------
(* Context assembly, lines 136-176 *)

HDR == "[clause] "
PPE == "Protective Equipment: "
DOC == "[ok] Support Doc: "

\* str.join over the applies_to list, lines 142 and 149
AppliesTo(c) ==
    JoinStr(OrEmptyList(Get(c.applies_to, L(<<>>))).v, <<", ">>)

\* clause_block, lines 144-151
ClauseBlock(c) ==
    Strip(<<NL, HDR>> \o Format(c.clause_section_id)
          \o <<": ">> \o Format(c.clause_title)
          \o <<NL, "Summary: ">> \o Format(c.clause_summary)
          \o <<NL, "Violations (FY2024): ">>
          \o Format(Get(c.violations_fy2024, NA))
          \o <<NL, "Hazard Type: ">> \o Format(Get(c.hazard_type, NA))
          \o <<NL, "Applies To: ">> \o AppliesTo(c)
          \o <<NL, PPE>> \o Format(Get(c.protective_equipment, NA))
          \o <<NL>>)

\* the string appended to doc_blocks, lines 164-173
DocBlock(d) ==
    Strip(<<NL, IND, DOC>> \o Format(d.support_title)
          \o <<NL, IND, "- Summary: ">> \o Format(d.support_summary)
          \o <<NL, IND, "- Guidance: ">>
          \o Format(Get(d.support_compliance_guidance, Empty))
          \o <<NL, IND, "- Notes: ">>
          \o Format(Get(d.support_enforcement_notes, Empty))
          \o <<NL, IND, "- URL: ">> \o Format(d.support_url)
          \o <<NL, IND, "- Related Sections: ">>
          \o Format(Get(d.support_related_sections, NA))
          \o <<NL, IND, "- Type: ">>
          \o Format(Get(d.support_publication_type, NA))
          \o <<NL, IND, "- Published: ">>
          \o Format(Get(d.support_publication_date, NA))
          \o <<NL, IND>>)

\* clause.get("support_docs", []), line 154
SupportDocs(c) == Get(c.support_docs, L(<<>>))

\* doc_blocks after the inner loop, lines 153-173
DocBlocks(c) ==
    [i \in 1..Len(SupportDocs(c).v) |-> DocBlock(SupportDocs(c).v[i])]

\* full_block, line 175
FullBlock(c) ==
    ClauseBlock(c) \o <<NL, NL>> \o JoinStr(DocBlocks(c), <<NL, NL>>)

\* the subscripts doc['support_title'], doc['support_summary'],
\* doc['support_url'] raise KeyError on a missing key
DocRaises(d) ==
    \/ KeyError(d.support_title)
    \/ KeyError(d.support_summary)
    \/ KeyError(d.support_url)

\* one iteration of the clause loop raises: KeyError on the subscripts of
\* lines 138-139, TypeError when the loop of line 154 iterates None,
\* KeyError inside the document loop
ClauseRaises(c) ==
    \/ KeyError(c.clause_section_id)
    \/ KeyError(c.clause_title)
    \/ KeyError(c.clause_summary)
    \/ SupportDocs(c).tag = "None"
    \/ \E i \in 1..Len(SupportDocs(c).v) : DocRaises(SupportDocs(c).v[i])

\* a slip: the block is inserted at the front
PrependBlock(acc, block) == <<block>> \o acc

\* context_blocks.append(full_block), line 176
AppendBlock(acc, block) == Append(acc, block)

\* the loop over clauses, lines 137-176: the blocks collected and
\* whether an iteration raised
RECURSIVE AssembleLoop(_, _)
AssembleLoop(rest, acc) ==
    IF rest = <<>> THEN [raised |-> FALSE, blocks |-> acc]
    ELSE IF ClauseRaises(Head(rest)) THEN [raised |-> TRUE, blocks |-> acc]
    ELSE AssembleLoop(Tail(rest), AppendBlock(acc, FullBlock(Head(rest))))

----------------------------------------------------------------------------
(* Prompt construction, lines 179-231 *)

NotClearInstruction ==
    <<"8. Never assume or invent interpretations - if unclear, write: '",
      "Not clear from provided context.", "'">>

\* lines 181-195 and, identically, lines 211-225
Instructions ==
    <<NL, "You are a top-tier OSHA compliance advisor [...]", NL,
      NL, "Your task is to answer the user's question [...]", NL,
      NL, "**Your response must:**", NL,
      "1. Be written in **clear, practical English** [...]", NL,
      "2. Explicitly cite the applicable **OSHA section ID(s)** [...]", NL,
      "3. State whether the rule is **mandatory** [...]", NL,
      "4. Identify **who it applies to** and **where**.", NL,
      "5. Include any **exceptions** [...]", NL,
      "6. Indicate the **likelihood of citation or violation** [...]", NL,
      "7. Highlight **common compliance pitfalls** [...]", NL>>
    \o NotClearInstruction
    \o <<NL, NL, "---", NL>>

InstructionTokens == Tokens(Instructions)

\* a slip: only the first block reaches the prompt
ContextFirstOnly(blocks) == IF blocks = <<>> THEN <<>> ELSE blocks[1]

\* '\n'.join(context_blocks), line 203
Context(blocks) == JoinStr(blocks, <<NL>>)

\* the question as placed in the grounded prompt, line 198
GroundedQuestion(q) == Strip(q)

\* a slip: nothing is prompted when nothing was retrieved
GroundedPromptSkipEmpty(q, blocks) ==
    IF blocks = <<>> THEN <<>>
    ELSE Instructions
         \o <<NL, "[?] **User Question**:", NL>> \o GroundedQuestion(q)
         \o <<NL, NL, "---", NL, NL, "[book] **Regulatory Context**:", NL>>
         \o Context(blocks)
         \o <<NL, NL, "---", NL, NL, "[speech] **Answer**:", NL>>

\* lines 180-208
GroundedPrompt(q, blocks) ==
    Instructions
    \o <<NL, "[?] **User Question**:", NL>> \o GroundedQuestion(q)
    \o <<NL, NL, "---", NL, NL, "[book] **Regulatory Context**:", NL>>
    \o Context(blocks)
    \o <<NL, NL, "---", NL, NL, "[speech] **Answer**:", NL>>

\* lines 210-231
RawPrompt(q) ==
    Instructions
    \o <<"Question:", NL>> \o q
    \o <<NL, NL, "---", NL, "Answer:", NL>>

RawFrame == {"Question:", "Answer:"}

----------------------------------------------------------------------------
(* Widgets *)

QUESTION == "Are there exceptions to the requirement for safety nets?"

Queries == {<<>>, <<SP>>, <<SP, QUESTION, SP>>}

Grounded == "Regulated Builds"
Raw      == "Raw Gemini"
Modes    == {Grounded, Raw}

\* st.button("Search"), line 118: True in the run its click started
SearchPressed(t) == t = "Search"

\* st.button("Was this helpful?"), line 247: True in the run its click started
VotePressed(t) == t = "vote"

\* not query, line 119
QueryRejected(q) == q = <<>>

----------------------------------------------------------------------------
(* The session *)

\* the page after its first load: no widget touched, nothing searched
Init ==
    /\ query = <<>>
    /\ answer_mode = Grounded
    /\ has_helpful_count = FALSE
    /\ helpful_count = 0
    /\ trigger = "load"
    /\ pc = "Idle"
    /\ clauses = <<>>
    /\ context_blocks = <<>>
    /\ prompt = <<>>
    /\ ui = {}
    /\ log = <<>>
    /\ failed = "none"
    /\ data_kind = "unset"
    /\ embedCalls = 0
    /\ retrCalls = 0
    /\ genCalls = 0
    /\ sent = <<>>
    /\ votes = 0

\* a slip: the retrieval branch is never entered
FirstStageNoRetrieval(m) == "Prompting"

\* the branch on answer_mode after validation, line 125
FirstStage(m) == IF m = Grounded THEN "Retrieving" ELSE "Prompting"

\* a script run starts: the locals of the previous run are gone
FreshLocals ==
    /\ clauses' = <<>>
    /\ context_blocks' = <<>>
    /\ prompt' = <<>>
    /\ failed' = "none"
    /\ data_kind' = "unset"
    /\ embedCalls' = 0
    /\ retrCalls' = 0
    /\ genCalls' = 0
    /\ sent' = <<>>

\* The script from its top to the first external call or to its end, in the
\* run started by widget t with the widget values q and m (lines 103-125;
\* lines 261-262 when the Search block is skipped or stopped).
RunScript(t, q, m) ==
    /\ trigger' = t
    /\ FreshLocals
    /\ IF ~SearchPressed(t)
       THEN /\ ui' = {}
            /\ log' = <<>>
            /\ pc' = "Idle"
       ELSE IF QueryRejected(q)
       THEN /\ ui' = {"warning"}
            /\ log' = <<"Validating">>
            /\ pc' = "Idle"
       ELSE /\ ui' = {"searching_for"}
            /\ log' = <<"Validating">>
            /\ pc' = FirstStage(m)

\* the user edits the question: the script reruns
SetQuery(q) ==
    /\ pc = "Idle"
    /\ q # query
    /\ query' = q
    /\ RunScript("text_input", q, answer_mode)
    /\ UNCHANGED <<answer_mode, has_helpful_count, helpful_count, votes>>

\* the user picks the other answer source: the script reruns
SetMode(m) ==
    /\ pc = "Idle"
    /\ m # answer_mode
    /\ answer_mode' = m
    /\ RunScript("radio", query, m)
    /\ UNCHANGED <<query, has_helpful_count, helpful_count, votes>>

\* the user clicks Search, line 118
ClickSearch ==
    /\ pc = "Idle"
    /\ RunScript("Search", query, answer_mode)
    /\ UNCHANGED <<query, answer_mode, has_helpful_count, helpful_count,
                   votes>>

\* a slip: the exception is swallowed and the run goes on to the prompt
UncaughtSwallowed(where) ==
    /\ failed' = where
    /\ ui' = ui \cup {"exception"}
    /\ pc' = "Prompting"

\* the script run ends on an uncaught exception
Uncaught(where) ==
    /\ failed' = where
    /\ ui' = ui \cup {"exception"}
    /\ pc' = "Idle"

\* model.encode raises, line 127
EmbedRaises ==
    /\ pc = "Retrieving"
    /\ log' = Append(log, "Retrieving")
    /\ embedCalls' = embedCalls + 1
    /\ Uncaught("embed")
    /\ UNCHANGED <<query, answer_mode, has_helpful_count, helpful_count,
                   trigger, clauses, context_blocks, prompt, data_kind,
                   retrCalls, genCalls, sent, votes>>

\* supabase.rpc(...).execute() raises, lines 129-132
RetrieveRaises ==
    /\ pc = "Retrieving"
    /\ log' = Append(log, "Retrieving")
    /\ embedCalls' = embedCalls + 1
    /\ retrCalls' = retrCalls + 1
    /\ Uncaught("retrieve")
    /\ UNCHANGED <<query, answer_mode, has_helpful_count, helpful_count,
                   trigger, clauses, context_blocks, prompt, data_kind,
                   genCalls, sent, votes>>

\* response.data or [], line 133
DataOrEmpty(data) == OrEmptyList(data).v

\* embedding and retrieval succeed, lines 126-133
RetrieveOk ==
    /\ pc = "Retrieving"
    /\ \E data \in {None} \cup {L(r) : r \in RetrievalResults} :
          /\ clauses' = DataOrEmpty(data)
          /\ data_kind' = IF data.tag = "None" THEN "null" ELSE "list"
    /\ log' = Append(log, "Retrieving")
    /\ embedCalls' = embedCalls + 1
    /\ retrCalls' = retrCalls + 1
    /\ pc' = "Assembling"
    /\ UNCHANGED <<query, answer_mode, has_helpful_count, helpful_count,
                   trigger, context_blocks, prompt, ui, failed, genCalls,
                   sent, votes>>

\* the clause loop, lines 135-176
Assemble ==
    /\ pc = "Assembling"
    /\ log' = Append(log, "Assembling")
    /\ context_blocks' = AssembleLoop(clauses, <<>>).blocks
    /\ IF AssembleLoop(clauses, <<>>).raised
       THEN /\ failed' = "assemble"
            /\ ui' = ui \cup {"clauses_header", "exception"}
            /\ pc' = "Idle"
       ELSE /\ failed' = failed
            /\ ui' = ui \cup {"clauses_header"}
            /\ pc' = "Prompting"
    /\ UNCHANGED <<query, answer_mode, has_helpful_count, helpful_count,
                   trigger, clauses, prompt, data_kind, embedCalls,
                   retrCalls, genCalls, sent, votes>>

\* the prompt for the answer source, lines 179-231
BuildPrompt ==
    /\ pc = "Prompting"
    /\ log' = Append(log, "Prompting")
    /\ prompt' = IF answer_mode = Grounded
                 THEN GroundedPrompt(query, context_blocks)
                 ELSE RawPrompt(query)
    /\ pc' = "Generating"
    /\ UNCHANGED <<query, answer_mode, has_helpful_count, helpful_count,
                   trigger, clauses, context_blocks, ui, failed, data_kind,
                   embedCalls, retrCalls, genCalls, sent, votes>>

\* a slip: the except branch tries the generation again
GenerationFailedRetry ==
    /\ failed' = "generate"
    /\ ui' = ui \cup {"error", "error_detail"}
    /\ pc' = "Generating"

\* the except branch, lines 258-260
GenerationFailed ==
    /\ failed' = "generate"
    /\ ui' = ui \cup {"error", "error_detail"}
    /\ pc' = "Idle"

\* genai.configure or st.secrets[...] raises, lines 235-238
ConfigureRaises ==
    /\ pc = "Generating"
    /\ log' = Append(log, "Generating")
    /\ GenerationFailed
    /\ UNCHANGED <<query, answer_mode, has_helpful_count, helpful_count,
                   trigger, clauses, context_blocks, prompt, data_kind,
                   embedCalls, retrCalls, genCalls, sent, votes>>

\* gemini.generate_content raises, line 239
GenerateRaises ==
    /\ pc = "Generating"
    /\ log' = Append(log, "Generating")
    /\ genCalls' = genCalls + 1
    /\ sent' = Append(sent, prompt)
    /\ GenerationFailed
    /\ UNCHANGED <<query, answer_mode, has_helpful_count, helpful_count,
                   trigger, clauses, context_blocks, prompt, data_kind,
                   embedCalls, retrCalls, votes>>

\* gemini_response.text raises, line 240
TextRaises ==
    /\ pc = "Generating"
    /\ log' = Append(log, "Generating")
    /\ genCalls' = genCalls + 1
    /\ sent' = Append(sent, prompt)
    /\ GenerationFailed
    /\ UNCHANGED <<query, answer_mode, has_helpful_count, helpful_count,
                   trigger, clauses, context_blocks, prompt, data_kind,
                   embedCalls, retrCalls, votes>>

\* st.session_state.helpful_count after lines 244-248
CountAfterVoteButton(has, count, t) ==
    (IF has THEN count ELSE 0) + (IF VotePressed(t) THEN 1 ELSE 0)

\* generation succeeds and the answer is presented, lines 239-256
GenerateOk ==
    /\ pc = "Generating"
    /\ log' = log \o <<"Generating", "Presenting">>
    /\ genCalls' = genCalls + 1
    /\ sent' = Append(sent, prompt)
    /\ ui' = ui \cup {"answer_header", "answer", "vote_button",
                      "votes_label", "export_button"}
    /\ has_helpful_count' = TRUE
    /\ helpful_count' =
           CountAfterVoteButton(has_helpful_count, helpful_count, trigger)
    /\ pc' = "Idle"
    /\ UNCHANGED <<query, answer_mode, trigger, clauses, context_blocks,
                   prompt, failed, data_kind, embedCalls, retrCalls, votes>>

\* the user clicks the vote button shown under an answer: the script reruns
ClickVote ==
    /\ pc = "Idle"
    /\ "vote_button" \in ui
    /\ votes < MaxVotes
    /\ votes' = votes + 1
    /\ RunScript("vote", query, answer_mode)
    /\ UNCHANGED <<query, answer_mode, has_helpful_count, helpful_count>>

\* the user clicks the export button shown under an answer: the script reruns
ClickExport ==
    /\ pc = "Idle"
    /\ "export_button" \in ui
    /\ RunScript("export", query, answer_mode)
    /\ UNCHANGED <<query, answer_mode, has_helpful_count, helpful_count,
                   votes>>

Next ==
    \/ \E q \in Queries : SetQuery(q)
    \/ \E m \in Modes : SetMode(m)
    \/ ClickSearch
    \/ EmbedRaises
    \/ RetrieveRaises
    \/ RetrieveOk
    \/ Assemble
    \/ BuildPrompt
    \/ ConfigureRaises
    \/ GenerateRaises
    \/ TextRaises
    \/ GenerateOk
    \/ ClickVote
    \/ ClickExport

Spec == Init /\ [][Next]_vars

TypeOK ==
    /\ query \in Queries
    /\ answer_mode \in Modes
    /\ has_helpful_count \in BOOLEAN
    /\ helpful_count \in 0..MaxVotes
    /\ pc \in {"Idle", "Retrieving", "Assembling", "Prompting", "Generating"}
    /\ votes \in 0..MaxVotes
    /\ Len(context_blocks) <= Len(clauses)

----------------------------------------------------------------------------
(* Properties *)

InLog(stage) == \E i \in 1..Len(log) : log[i] = stage

IsPrefix(a, b) == Len(a) <= Len(b) /\ SubSeq(b, 1, Len(a)) = a

\* a retrieval that succeeded without records: null data or an empty list
ZeroResults == data_kind # "unset" /\ clauses = <<>>

PresentationElements ==
    {"answer_header", "answer", "vote_button", "votes_label",
     "export_button"}

\* C1: in a grounded submission whose embedding or retrieval call raised,
\* no prompt is built and the generator is not called; a retrieval that
\* succeeded with zero records (empty list or null data) is not a failure:
\* the run does not raise before generation, and once it has ended it has
\* built a prompt and entered generation.
C1_RetrievalFailureAborts ==
    /\ (answer_mode = Grounded /\ failed \in {"embed", "retrieve"}) =>
          /\ prompt = <<>>
          /\ ~InLog("Prompting")
          /\ ~InLog("Generating")
          /\ genCalls = 0
          /\ sent = <<>>
          /\ pc = "Idle"
    /\ ZeroResults =>
          /\ failed \in {"none", "generate"}
          /\ pc = "Idle" =>
                /\ InLog("Prompting")
                /\ prompt # <<>>
                /\ InLog("Generating")

C1_Witness ==
    /\ answer_mode = Grounded
    /\ failed = "retrieve"
    /\ retrCalls = 1
    /\ pc = "Idle"

\* C2: in a submission whose query is empty or only whitespace, in either
\* mode, the user is warned and the embedder, the retriever and the generator
\* are never called.
C2_BlankQueryStopsPipeline ==
    (SearchPressed(trigger) /\ Strip(query) = <<>>) =>
        /\ "warning" \in ui
        /\ pc = "Idle"
        /\ embedCalls = 0
        /\ retrCalls = 0
        /\ genCalls = 0

\* C3: the generator is called at most once per submission; when the
\* generation block raised (credential configuration, the call, or reading
\* the text), the run has ended, no answer, vote control or export artifact
\* is shown, and the failure notice and the raw error detail are shown.
C3_GenerationFailureTerminal ==
    /\ genCalls <= 1
    /\ Len(sent) <= 1
    /\ failed = "generate" =>
          /\ pc = "Idle"
          /\ ui \cap PresentationElements = {}
          /\ {"error", "error_detail"} \subseteq ui

C3_Witness ==
    /\ failed = "generate"
    /\ genCalls = 1
    /\ pc = "Idle"

GroundedOrder ==
    <<"Validating", "Retrieving", "Assembling", "Prompting", "Generating",
      "Presenting">>

RawOrder == <<"Validating", "Prompting", "Generating", "Presenting">>

\* C4 as stated: whatever the answer mode, a submission that has reached
\* generation has completed retrieval and context assembly before it.
C4_GenerationAfterRetrieval ==
    InLog("Generating") => (InLog("Retrieving") /\ InLog("Assembling"))

\* C4 as amended: a grounded submission goes through Validating, Retrieving,
\* Assembling, prompt construction, Generating, Presenting in this order; a
\* raw submission goes through Validating, prompt construction, Generating,
\* Presenting, without retrieval or context assembly; in both modes no stage
\* is skipped or revisited.
C4_StagesInModeOrder ==
    /\ answer_mode = Grounded => IsPrefix(log, GroundedOrder)
    /\ answer_mode = Raw => IsPrefix(log, RawOrder)

C4_Witness ==
    /\ answer_mode = Raw
    /\ log = RawOrder
    /\ genCalls = 1

\* C5: a grounded prompt contains the join of the submission's context
\* blocks, and each block, as a substring; a raw prompt is made of the fixed
\* instructions, the frame of the question and the question only, with no
\* clause or document line; in raw mode neither the embedder nor the
\* retriever is called.
C5_ModeIsolation ==
    /\ (answer_mode = Grounded /\ prompt # <<>>) =>
          /\ IsSubstring(JoinStr(context_blocks, <<NL>>), prompt)
          /\ \A i \in 1..Len(context_blocks) :
                IsSubstring(context_blocks[i], prompt)
    /\ answer_mode = Raw =>
          /\ embedCalls = 0
          /\ retrCalls = 0
          /\ clauses = <<>>
          /\ Tokens(prompt) \subseteq
                 InstructionTokens \cup RawFrame \cup Tokens(query) \cup {NL}
          /\ Tokens(prompt) \cap {HDR, PPE, DOC, "Summary: "} = {}

C5_Witness ==
    /\ answer_mode = Grounded
    /\ Len(context_blocks) = 2
    /\ context_blocks[1] # context_blocks[2]
    /\ genCalls = 1

\* the section ids and document titles of a text with the markers that
\* introduce them, in the order in which they occur
Pick(s, idx) == [j \in 1..Len(idx) |-> s[idx[j]]]

Outline(s) ==
    LET Keep(i) == \/ s[i] \in {HDR, PPE, DOC}
                   \/ (i > 1 /\ s[i - 1] \in {HDR, DOC})
    IN  Pick(s, SelectSeq([i \in 1..Len(s) |-> i], Keep))

RECURSIVE DocsOutline(_)
DocsOutline(ds) ==
    IF ds = <<>> THEN <<>>
    ELSE <<DOC, Format(Head(ds).support_title)[1]>> \o DocsOutline(Tail(ds))

\* what the outline of a retrieval result is when nothing is dropped,
\* duplicated or reordered
RECURSIVE ExpectedOutline(_)
ExpectedOutline(cs) ==
    IF cs = <<>> THEN <<>>
    ELSE <<HDR, Format(Head(cs).clause_section_id)[1], PPE>>
         \o DocsOutline(Get(Head(cs).support_docs, L(<<>>)).v)
         \o ExpectedOutline(Tail(cs))

\* C6: once the context is assembled there is one block per clause, block i
\* is that of clause i, and the clauses, each followed by its own fields and
\* then by its documents in support_docs order, occur in the context in
\* retrieval order, also in the prompt that is built from it.
C6_OrderPreserved ==
    (InLog("Assembling") /\ failed # "assemble") =>
        /\ Len(context_blocks) = Len(clauses)
        /\ \A i \in 1..Len(context_blocks) :
              Outline(context_blocks[i]) = ExpectedOutline(<<clauses[i]>>)
        /\ Outline(JoinStr(context_blocks, <<NL>>))
               = ExpectedOutline(clauses)
        /\ InLog("Prompting") => Outline(prompt) = ExpectedOutline(clauses)

C6_Witness ==
    /\ InLog("Prompting")
    /\ Len(clauses) = 2
    /\ clauses[1].clause_section_id # clauses[2].clause_section_id
    /\ Len(Get(clauses[1].support_docs, L(<<>>)).v) = 2
    /\ Get(clauses[1].support_docs, L(<<>>)).v[1]
           # Get(clauses[1].support_docs, L(<<>>)).v[2]

\* the record has a section id and a title
HasIdAndTitle(c) ==
    c.clause_section_id.tag = "str" /\ c.clause_title.tag = "str"

\* every other field is a missing key or null
OptionalFieldsAbsent(c) ==
    /\ c.clause_summary.tag \in {"absent", "None"}
    /\ c.violations_fy2024.tag \in {"absent", "None"}
    /\ c.hazard_type.tag \in {"absent", "None"}
    /\ c.applies_to.tag \in {"absent", "None"}
    /\ c.protective_equipment.tag \in {"absent", "None"}
    /\ c.support_docs.tag \in {"absent", "None"}

\* C7: when every retrieved clause has a section id and a title and all its
\* other fields absent (missing key or null), context assembly does not
\* raise and yields one block per clause.
C7_MissingFieldsDoNotRaise ==
    (InLog("Assembling")
     /\ \A i \in 1..Len(clauses) :
           HasIdAndTitle(clauses[i]) /\ OptionalFieldsAbsent(clauses[i]))
    => /\ failed # "assemble"
       /\ Len(context_blocks) = Len(clauses)

\* C8: after a retrieval without records the assembled context is the empty
\* string, and the grounded prompt is non-empty, has nothing in its context
\* section, contains the trimmed question and the instruction to write "Not
\* clear from provided context.", and is the prompt sent to the generator.
C8_EmptyRetrievalPrompt ==
    (answer_mode = Grounded /\ ZeroResults /\ InLog("Prompting")) =>
        /\ JoinStr(context_blocks, <<NL>>) = <<>>
        /\ prompt # <<>>
        /\ IsSubstring(Strip(query), prompt)
        /\ QUESTION \in Tokens(query) => QUESTION \in Tokens(prompt)
        /\ IsSubstring(NotClearInstruction, prompt)
        /\ IsSubstring(<<"[book] **Regulatory Context**:", NL, NL, NL, "---">>,
                       prompt)
        /\ \A i \in 1..Len(sent) : sent[i] = prompt

C8_Witness ==
    /\ answer_mode = Grounded
    /\ data_kind = "null"
    /\ query = <<SP, QUESTION, SP>>
    /\ genCalls = 1
    /\ sent = <<prompt>>

\* k line breaks
NLs(k) == [i \in 1..k |-> NL]

\* C9: with two or more clauses, each block is followed in the prompt's
\* context by a blank line and then by the next block, whether or not the
\* clause has supporting documents.
C9_BlankLineBetweenBlocks ==
    (answer_mode = Grounded /\ InLog("Prompting") /\ Len(clauses) >= 2) =>
        \A i \in 1..(Len(context_blocks) - 1) :
            \E k \in 2..4 :
                IsSubstring(RStrip(context_blocks[i]) \o NLs(k)
                                \o context_blocks[i + 1],
                            prompt)

\* C10: the session's helpful-vote counter equals the number of clicks on
\* the vote control.
C10_CounterCountsVotes ==
    (IF has_helpful_count THEN helpful_count ELSE 0) = votes

====
